---- MODULE Spec2Model ----
(***************************************************************************)
(* Model of src/app.py: the one-shot pipeline fetch_ibge_data() (two GET   *)
(* requests, parse, monthly -> quarterly aggregation, inner join) and the  *)
(* module-level rendering that follows it.                                 *)
(*                                                                         *)
(* Strings of the program are sequences of one-character strings, so that  *)
(* slicing, concatenation and numeric parsing are computed.  Numbers are   *)
(* exact rationals <<numerator, denominator>> (IEEE rounding is not        *)
(* modelled).  A DataFrame is the sequence (or, for the keyed group-by     *)
(* result, the set) of its rows; a frame built from no records has no      *)
(* columns, so reading a column of it raises KeyError.                     *)
(***************************************************************************)
EXTENDS Integers, Sequences, FiniteSets, TLC

VARIABLES pc, net, requests, resp_ipca, resp_pnad, ipca_records, df_ipca,
          df_ipca_trim, pnad_records, df, exc, raised_at, layout, charts

vars == <<pc, net, requests, resp_ipca, resp_pnad, ipca_records, df_ipca,
          df_ipca_trim, pnad_records, df, exc, raised_at, layout, charts>>

\* ------------------------------------------------------------- bounds
\* the general specification: results per response, series entries per
\* result, observations per response
MaxResults == 2
MaxSeries == 2
MaxObs == 2
\* the join specification: results and observations per response
JoinResults == 2
JoinObs == 2
\* the aggregation specification
AggResults == 2
AggObs == 3
\* the quarter specification: years covered, observations per response
NumYears == 2
QuarterObs == 1
\* the region specification: results per response
RegionResults == 2

\* ------------------------------------------------------------ strings
DigitChars == <<"0", "1", "2", "3", "4", "5", "6", "7", "8", "9">>

IsDigit(c) == \E i \in 1..10 : DigitChars[i] = c

DigitVal(c) == (CHOOSE i \in 1..10 : DigitChars[i] = c) - 1

AllDigits(s) == \A i \in 1..Len(s) : IsDigit(s[i])

\* int("2020"): the number a digit string denotes.
RECURSIVE ParseNat(_)
ParseNat(s) ==
  IF s = <<>> THEN 0
  ELSE 10 * ParseNat(SubSeq(s, 1, Len(s) - 1)) + DigitVal(s[Len(s)])

\* str(n) for a natural number.
RECURSIVE NatStr(_)
NatStr(n) ==
  IF n < 10 THEN <<DigitChars[n + 1]>>
  ELSE NatStr(n \div 10) \o <<DigitChars[(n % 10) + 1]>>

RECURSIVE Pow10(_)
Pow10(k) == IF k = 0 THEN 1 ELSE 10 * Pow10(k - 1)

\* ---------------------------------------------------------- rationals
RatEq(a, b) == a[1] * b[2] = b[1] * a[2]

RECURSIVE Gcd(_, _)
Gcd(a, b) == IF b = 0 THEN a ELSE Gcd(b, a % b)

Abs(n) == IF n < 0 THEN 0 - n ELSE n

\* a rational in lowest terms
Norm(a) ==
  LET g == Gcd(Abs(a[1]), Abs(a[2]))
  IN IF g = 0 THEN a ELSE <<a[1] \div g, a[2] \div g>>

RatAdd(a, b) == Norm(<<a[1] * b[2] + b[1] * a[2], a[2] * b[2]>>)

RECURSIVE RatSum(_)
RatSum(vals) ==
  IF vals = <<>> THEN <<0, 1>> ELSE RatAdd(Head(vals), RatSum(Tail(vals)))

\* index of the first "." of s, or 0
DotAt(s) ==
  IF \E i \in 1..Len(s) : s[i] = "."
  THEN CHOOSE i \in 1..Len(s) : s[i] = "." /\ \A j \in 1..(i - 1) : s[j] # "."
  ELSE 0

\* float(valor) on the decimal literals [sign] digits [. digits]; anything
\* else raises ValueError (ok = FALSE).
Float(s) ==
  LET neg  == Len(s) > 0 /\ s[1] = "-"
      sgn  == Len(s) > 0 /\ s[1] \in {"-", "+"}
      body == IF sgn THEN Tail(s) ELSE s
      d    == DotAt(body)
      ip   == IF d = 0 THEN body ELSE SubSeq(body, 1, d - 1)
      fp   == IF d = 0 THEN <<>> ELSE SubSeq(body, d + 1, Len(body))
      ok   == AllDigits(ip) /\ AllDigits(fp) /\ Len(ip) + Len(fp) > 0
      mag  == ParseNat(ip) * Pow10(Len(fp)) + ParseNat(fp)
  IN IF ok
     THEN [ok |-> TRUE, val |-> Norm(<<IF neg THEN 0 - mag ELSE mag, Pow10(Len(fp))>>)]
     ELSE [ok |-> FALSE, val |-> <<0, 1>>]

\* ------------------------------------------------------------- parser
\* the one marker the parser tests for
Ellipsis == <<".", ".", ".">>

NoExc == "none"

\* what resp[0]['resultados'] raises on a JSON body that is not the expected
\* list: an object has no key 0, an empty list no index 0
ErrorObject == [shape |-> "object", resultados |-> <<>>]
EmptyList == [shape |-> "empty_list", resultados |-> <<>>]
Unset == [shape |-> "unset", resultados |-> <<>>]

\* a JSON list whose first element holds 'resultados'
Payload(resultados) == [shape |-> "list", resultados |-> resultados]

ShapeError(body) ==
  IF body.shape = "object" THEN "KeyError"
  ELSE IF body.shape = "empty_list" THEN "IndexError"
  ELSE NoExc

\* str(rm_id)[-1]
LastChar(rm_id) == SubSeq(rm_id, Len(rm_id), Len(rm_id))

\* str(rm_id)[0]
MacroCode(rm_id) == SubSeq(rm_id, 1, 1)

\* for periodo, valor in serie['series'][0].items(): ... append
RECURSIVE IpcaItems(_, _, _)
IpcaItems(items, rm_name, macro_code) ==
  IF items = <<>> THEN [exc |-> NoExc, recs |-> <<>>]
  ELSE LET periodo == Head(items)[1]
           valor   == Head(items)[2]
           rest    == IpcaItems(Tail(items), rm_name, macro_code)
       IN IF valor # Ellipsis
          THEN IF ~Float(valor).ok THEN [exc |-> "ValueError", recs |-> <<>>]
               ELSE IF rest.exc # NoExc THEN rest
               ELSE [exc |-> NoExc,
                     recs |-> <<[Mes |-> periodo, RM |-> rm_name,
                                 Macro_ID |-> macro_code,
                                 IPCA |-> Float(valor).val]>> \o rest.recs]
          ELSE rest

\* for serie in resp_ipca[0]['resultados']: ...
RECURSIVE IpcaParse(_)
IpcaParse(resultados) ==
  IF resultados = <<>> THEN [exc |-> NoExc, recs |-> <<>>]
  ELSE LET serie == Head(resultados)
           rm_name == serie.localidade.nome
           rm_id == serie.localidade.id
           macro_code == MacroCode(rm_id)
       IN IF serie.series = <<>> THEN [exc |-> "IndexError", recs |-> <<>>]
          ELSE LET here == IpcaItems(serie.series[1], rm_name, macro_code)
                   rest == IpcaParse(Tail(resultados))
               IN IF here.exc # NoExc THEN here
                  ELSE IF rest.exc # NoExc THEN rest
                  ELSE [exc |-> NoExc, recs |-> here.recs \o rest.recs]

RECURSIVE PnadItems(_, _)
PnadItems(items, macro_id) ==
  IF items = <<>> THEN [exc |-> NoExc, recs |-> <<>>]
  ELSE LET periodo == Head(items)[1]
           valor   == Head(items)[2]
           rest    == PnadItems(Tail(items), macro_id)
       IN IF valor # Ellipsis
          THEN IF ~Float(valor).ok THEN [exc |-> "ValueError", recs |-> <<>>]
               ELSE IF rest.exc # NoExc THEN rest
               ELSE [exc |-> NoExc,
                     recs |-> <<[Trimestre_Cod |-> periodo, Macro_ID |-> macro_id,
                                 Desemprego |-> Float(valor).val]>> \o rest.recs]
          ELSE rest

RECURSIVE PnadParse(_)
PnadParse(resultados) ==
  IF resultados = <<>> THEN [exc |-> NoExc, recs |-> <<>>]
  ELSE LET serie == Head(resultados)
           macro_id == serie.localidade.id
       IN IF serie.series = <<>> THEN [exc |-> "IndexError", recs |-> <<>>]
          ELSE LET here == PnadItems(serie.series[1], macro_id)
                   rest == PnadParse(Tail(resultados))
               IN IF here.exc # NoExc THEN here
                  ELSE IF rest.exc # NoExc THEN rest
                  ELSE [exc |-> NoExc, recs |-> here.recs \o rest.recs]

\* ------------------------------------------------- monthly -> quarterly
\* df_ipca['Mes'].str[:4]
Ano(mes) == SubSeq(mes, 1, 4)

\* pd.to_datetime(mes, format='%Y%m'): four year digits, then a month 1..12
ToDatetime(mes) ==
  LET m == IF Len(mes) > 4 THEN ParseNat(SubSeq(mes, 5, Len(mes))) ELSE 0
  IN [ok |-> Len(mes) \in {5, 6} /\ AllDigits(mes) /\ m \in 1..12,
      year |-> IF Len(mes) >= 4 /\ AllDigits(mes) THEN ParseNat(Ano(mes)) ELSE 0,
      month |-> m]

\* the month divided by 3
MonthDiv3(month) == (month \div 3) + 1

\* .dt.quarter
Quarter(month) == ((month - 1) \div 3) + 1

\* df_ipca['Ano'] + "0" + df_ipca['Trimestre'].astype(str)
TrimestreCod(mes) == Ano(mes) \o <<"0">> \o NatStr(Quarter(ToDatetime(mes).month))

AddQuarter(rec) ==
  [Mes |-> rec.Mes, RM |-> rec.RM, Macro_ID |-> rec.Macro_ID, IPCA |-> rec.IPCA,
   Ano |-> Ano(rec.Mes), Trimestre |-> Quarter(ToDatetime(rec.Mes).month),
   Trimestre_Cod |-> TrimestreCod(rec.Mes)]

\* ---------------------------------------------------------- aggregator
GroupKey(rec) == <<rec.Macro_ID, rec.Trimestre_Cod>>

RECURSIVE GroupValues(_, _)
GroupValues(frame, key) ==
  IF frame = <<>> THEN <<>>
  ELSE (IF GroupKey(Head(frame)) = key THEN <<Head(frame).IPCA>> ELSE <<>>)
       \o GroupValues(Tail(frame), key)

\* Series.sum() in place of mean()
Total(vals) == RatSum(vals)

\* Series.mean(): sum / count
Mean(vals) == LET s == RatSum(vals) IN Norm(<<s[1], s[2] * Len(vals)>>)

\* df_ipca_trim['IPCA'] * 3
AcumTrim(mean) == Norm(<<mean[1] * 3, mean[2]>>)

\* groupby(['Macro_ID', 'Trimestre_Cod'])['IPCA'].mean().reset_index()
GroupByMean(frame) ==
  { [Macro_ID |-> key[1], Trimestre_Cod |-> key[2],
     IPCA |-> Mean(GroupValues(frame, key)),
     IPCA_Acum_Trim |-> AcumTrim(Mean(GroupValues(frame, key)))] :
    key \in {GroupKey(frame[i]) : i \in 1..Len(frame)} }

\* --------------------------------------------------------------- merge
MacroKeys == {<<"1">>, <<"2">>, <<"3">>, <<"4">>, <<"5">>}

macro_map(code) ==
  CASE code = <<"1">> -> "Norte"
    [] code = <<"2">> -> "Nordeste"
    [] code = <<"3">> -> "Sudeste"
    [] code = <<"4">> -> "Sul"
    [] code = <<"5">> -> "Centro-Oeste"

\* Series.map(macro_map): NaN for a code the table lacks
Regiao(code) == IF code \in MacroKeys THEN macro_map(code) ELSE "NaN"

\* pd.PeriodIndex(cod[:4] + "Q" + cod[-1], freq='Q').to_timestamp()
PeriodOk(cod) ==
  Len(cod) >= 4 /\ AllDigits(cod) /\ DigitVal(cod[Len(cod)]) \in 1..4

QuarterStart(cod) ==
  [year |-> ParseNat(SubSeq(cod, 1, 4)),
   month |-> 3 * (DigitVal(cod[Len(cod)]) - 1) + 1]

Matches(left_row, right) ==
  {r \in right : r.Macro_ID = left_row.Macro_ID
                 /\ r.Trimestre_Cod = left_row.Trimestre_Cod}

\* how='left': a left row without a match is kept, its right columns NaN
RECURSIVE LeftJoin(_, _)
LeftJoin(left, right) ==
  IF left = <<>> THEN <<>>
  ELSE LET l == Head(left)
           m == Matches(l, right)
           r == IF m = {} THEN [IPCA |-> <<0, 0>>, IPCA_Acum_Trim |-> <<0, 0>>]
                ELSE CHOOSE x \in m : TRUE
       IN <<[Trimestre_Cod |-> l.Trimestre_Cod, Macro_ID |-> l.Macro_ID,
             Desemprego |-> l.Desemprego, IPCA |-> r.IPCA,
             IPCA_Acum_Trim |-> r.IPCA_Acum_Trim]>>
          \o LeftJoin(Tail(left), right)

\* pd.merge(left, right, on=['Macro_ID', 'Trimestre_Cod'], how='inner'), the
\* right frame holding one row per key
RECURSIVE InnerJoin(_, _)
InnerJoin(left, right) ==
  IF left = <<>> THEN <<>>
  ELSE LET l == Head(left)
           m == Matches(l, right)
       IN (IF m = {} THEN <<>>
           ELSE LET r == CHOOSE x \in m : TRUE
                IN <<[Trimestre_Cod |-> l.Trimestre_Cod, Macro_ID |-> l.Macro_ID,
                      Desemprego |-> l.Desemprego, IPCA |-> r.IPCA,
                      IPCA_Acum_Trim |-> r.IPCA_Acum_Trim]>>)
          \o InnerJoin(Tail(left), right)

Finish(row) ==
  [Trimestre_Cod |-> row.Trimestre_Cod, Macro_ID |-> row.Macro_ID,
   Desemprego |-> row.Desemprego, IPCA |-> row.IPCA,
   IPCA_Acum_Trim |-> row.IPCA_Acum_Trim,
   Regiao |-> Regiao(row.Macro_ID), Data |-> QuarterStart(row.Trimestre_Cod)]

\* a test for None in place of df.empty
IsNone(frame) == FALSE

\* df.empty
IsEmpty(frame) == Len(frame) = 0

\* scipy.stats.pearsonr(x, y) needs two observations
PearsonOk(frame) == Len(frame) >= 2

\* ------------------------------------------------------------ pipeline
\* requests.get(url, timeout=15).json() raises on a transport error and on a
\* body that is not JSON; the status code is not looked at
Raises(outcome) == outcome.kind \in {"exception", "not_json"}

GetIPCA ==
  /\ pc = "start"
  /\ requests' = Append(requests, "ipca")
  /\ pc' = IF Raises(net.ipca) THEN "returned" ELSE "got_ipca"
  /\ resp_ipca' = IF Raises(net.ipca) THEN resp_ipca ELSE net.ipca.body
  /\ df' = IF Raises(net.ipca) THEN <<>> ELSE df
  /\ UNCHANGED <<net, resp_pnad, ipca_records, df_ipca, df_ipca_trim,
                 pnad_records, exc, raised_at, layout, charts>>

GetPNAD ==
  /\ pc = "got_ipca"
  /\ requests' = Append(requests, "pnad")
  /\ pc' = IF Raises(net.pnad) THEN "returned" ELSE "fetched"
  /\ resp_pnad' = IF Raises(net.pnad) THEN resp_pnad ELSE net.pnad.body
  /\ df' = IF Raises(net.pnad) THEN <<>> ELSE df
  /\ UNCHANGED <<net, resp_ipca, ipca_records, df_ipca, df_ipca_trim,
                 pnad_records, exc, raised_at, layout, charts>>

ParseIPCA ==
  /\ pc = "fetched"
  /\ LET e == ShapeError(resp_ipca)
         p == IF e # NoExc THEN [exc |-> e, recs |-> <<>>]
              ELSE IpcaParse(resp_ipca.resultados)
     IN /\ pc' = IF p.exc = NoExc THEN "parsed_ipca" ELSE "raised"
        /\ exc' = p.exc
        /\ raised_at' = IF p.exc = NoExc THEN raised_at ELSE pc
        /\ ipca_records' = p.recs
  /\ UNCHANGED <<net, requests, resp_ipca, resp_pnad, df_ipca, df_ipca_trim,
                 pnad_records, df, layout, charts>>

Quarterize ==
  /\ pc = "parsed_ipca"
  /\ LET e == IF ipca_records = <<>> THEN "KeyError"
              ELSE IF \E i \in 1..Len(ipca_records) :
                        ~ToDatetime(ipca_records[i].Mes).ok THEN "ValueError"
              ELSE NoExc
     IN /\ pc' = IF e = NoExc THEN "quartered" ELSE "raised"
        /\ exc' = e
        /\ raised_at' = IF e = NoExc THEN raised_at ELSE pc
        /\ df_ipca' = IF e = NoExc
                      THEN [i \in 1..Len(ipca_records) |-> AddQuarter(ipca_records[i])]
                      ELSE <<>>
  /\ UNCHANGED <<net, requests, resp_ipca, resp_pnad, ipca_records, df_ipca_trim,
                 pnad_records, df, layout, charts>>

Aggregate ==
  /\ pc = "quartered"
  /\ df_ipca_trim' = GroupByMean(df_ipca)
  /\ pc' = "aggregated"
  /\ UNCHANGED <<net, requests, resp_ipca, resp_pnad, ipca_records, df_ipca,
                 pnad_records, df, exc, raised_at, layout, charts>>

ParsePNAD ==
  /\ pc = "aggregated"
  /\ LET e == ShapeError(resp_pnad)
         p == IF e # NoExc THEN [exc |-> e, recs |-> <<>>]
              ELSE PnadParse(resp_pnad.resultados)
     IN /\ pc' = IF p.exc = NoExc THEN "parsed_pnad" ELSE "raised"
        /\ exc' = p.exc
        /\ raised_at' = IF p.exc = NoExc THEN raised_at ELSE pc
        /\ pnad_records' = p.recs
  /\ UNCHANGED <<net, requests, resp_ipca, resp_pnad, ipca_records, df_ipca,
                 df_ipca_trim, df, layout, charts>>

Merge ==
  /\ pc = "parsed_pnad"
  /\ LET joined == InnerJoin(pnad_records, df_ipca_trim)
         e == IF pnad_records = <<>> THEN "KeyError"
              ELSE IF \E i \in 1..Len(joined) : ~PeriodOk(joined[i].Trimestre_Cod)
                   THEN "ValueError"
              ELSE NoExc
     IN /\ pc' = IF e = NoExc THEN "returned" ELSE "raised"
        /\ exc' = e
        /\ raised_at' = IF e = NoExc THEN raised_at ELSE pc
        /\ df' = IF e = NoExc THEN [i \in 1..Len(joined) |-> Finish(joined[i])]
                 ELSE <<>>
  /\ UNCHANGED <<net, requests, resp_ipca, resp_pnad, ipca_records, df_ipca,
                 df_ipca_trim, pnad_records, layout, charts>>

NumCharts == 5

Render ==
  /\ pc = "returned"
  /\ LET e == IF IsEmpty(df) \/ PearsonOk(df) THEN NoExc ELSE "ValueError"
     IN /\ pc' = IF e = NoExc THEN "done" ELSE "raised"
        /\ exc' = e
        /\ raised_at' = IF e = NoExc THEN raised_at ELSE pc
        /\ charts' = IF IsEmpty(df) THEN 0 ELSE NumCharts
        /\ layout' = IF IsEmpty(df) THEN "error"
                     ELSE IF e = NoExc THEN "dashboard" ELSE layout
  /\ UNCHANGED <<net, requests, resp_ipca, resp_pnad, ipca_records, df_ipca,
                 df_ipca_trim, pnad_records, df>>

Next ==
  \/ GetIPCA
  \/ GetPNAD
  \/ ParseIPCA
  \/ Quarterize
  \/ Aggregate
  \/ ParsePNAD
  \/ Merge
  \/ Render

\* ------------------------------------------------- the API's responses
\* period codes of the two endpoints: YYYYMM (monthly), YYYY0Q (quarterly)
FirstYear == 2020

TwoDigits(n) == <<DigitChars[(n \div 10) + 1], DigitChars[(n % 10) + 1]>>

MonthCode(year, month) == NatStr(year) \o TwoDigits(month)

QuarterCode(year, q) == NatStr(year) \o TwoDigits(q)

SaoPaulo == <<"3", "5", "5", "0", "3", "0", "8">>
RioDeJaneiro == <<"3", "3", "0", "4", "5", "5", "7">>
Belem == <<"1", "5", "0", "1", "4", "0", "2">>
Recife == <<"2", "6", "1", "1", "6", "0", "6">>
PortoAlegre == <<"4", "3", "1", "4", "9", "0", "2">>
Brasilia == <<"5", "3", "0", "0", "1", "0", "8">>

Nome(id) ==
  CASE id = SaoPaulo -> "Sao Paulo"
    [] id = RioDeJaneiro -> "Rio de Janeiro"
    [] id = Belem -> "Belem"
    [] id = Recife -> "Recife"
    [] id = PortoAlegre -> "Porto Alegre"
    [] id = Brasilia -> "Brasilia"
    [] OTHER -> "Grande Regiao"

V(int, frac) == <<DigitChars[int + 1], ".", DigitChars[frac + 1]>>

\* dictionaries period -> value in the document's (chronological) order, as
\* the sequence of their items, holding at most n observations
RECURSIVE Dicts(_, _, _)
Dicts(periods, vals, n) ==
  IF periods = <<>> \/ n = 0 THEN {<<>>}
  ELSE Dicts(Tail(periods), vals, n)
       \cup {<<<<Head(periods), v>>>> \o d :
               v \in vals, d \in Dicts(Tail(periods), vals, n - 1)}

\* lists of at most k such dictionaries holding at most n observations in all
RECURSIVE SeriesLists(_, _, _, _)
SeriesLists(periods, vals, k, n) ==
  IF k = 0 THEN {<<>>}
  ELSE {<<>>} \cup UNION {
         {<<d>> \o rest : rest \in SeriesLists(periods, vals, k - 1, n - Len(d))} :
         d \in Dicts(periods, vals, n)}

RECURSIVE CountObs(_)
CountObs(series) ==
  IF series = <<>> THEN 0 ELSE Len(Head(series)) + CountObs(Tail(series))

RECURSIVE TotalObs(_)
TotalObs(resultados) ==
  IF resultados = <<>> THEN 0
  ELSE CountObs(Head(resultados).series) + TotalObs(Tail(resultados))

\* 'resultados' lists of at most r entries, each entry's 'series' one of
\* `lists`, holding at most n observations in all
RECURSIVE Resultados(_, _, _, _)
Resultados(ids, lists, r, n) ==
  IF r = 0 THEN {<<>>}
  ELSE LET shorter == Resultados(ids, lists, r - 1, n)
           longest == {x \in shorter : Len(x) = r - 1}
       IN shorter \cup
          {Append(t[1], [localidade |-> [id |-> t[2], nome |-> Nome(t[2])],
                         series |-> t[3]]) :
             t \in {u \in longest \X ids \X lists :
                      TotalObs(u[1]) + CountObs(u[3]) <= n}}

\* one series entry per result, with at least one observation
OneSeries(periods, vals, n) == {<<d>> : d \in Dicts(periods, vals, n) \ {<<>>}}

\* what one GET can come to
Exception == [kind |-> "exception", status |-> 0, body |-> Unset]
NotJson(status) == [kind |-> "not_json", status |-> status, body |-> Unset]
Json(status, body) == [kind |-> "json", status |-> status, body |-> body]

\* the outcomes of a GET whose well-formed bodies are `resultados`: the request
\* fails in transport, the body is not JSON, the server answers an error with a
\* JSON error object, or it answers 200 with JSON of some shape
Outcomes(resultados) ==
  {Exception, NotJson(200), NotJson(500), Json(500, ErrorObject),
   Json(200, ErrorObject), Json(200, EmptyList)}
  \cup {Json(200, Payload(x)) : x \in resultados}

\* the state after the imports, before line 74 runs
Start(ipca, pnad) ==
  /\ pc = "start"
  /\ net \in [ipca : ipca, pnad : pnad]
  /\ requests = <<>>
  /\ resp_ipca = Unset
  /\ resp_pnad = Unset
  /\ ipca_records = <<>>
  /\ df_ipca = <<>>
  /\ df_ipca_trim = {}
  /\ pnad_records = <<>>
  /\ df = <<>>
  /\ exc = NoExc
  /\ raised_at = "none"
  /\ layout = "unset"
  /\ charts = 0

\* -- the general specification: every outcome of both requests, responses of
\* any shape with the markers "...", "-" and "X" among the values
IpcaValues == {V(1, 0), Ellipsis, <<"-">>, <<"X">>}

Init ==
  LET
      IpcaLists ==
        SeriesLists(<<MonthCode(FirstYear, 1), MonthCode(FirstYear, 4)>>, IpcaValues,
                    MaxSeries, MaxObs)
      PnadLists ==
        SeriesLists(<<QuarterCode(FirstYear, 1)>>, {V(7, 5), Ellipsis},
                    MaxSeries, MaxObs)
      IpcaOutcomes ==
       Outcomes(Resultados({SaoPaulo}, IpcaLists, MaxResults, MaxObs))
      PnadOutcomes ==
       Outcomes(Resultados({<<"3">>}, PnadLists, MaxResults, MaxObs))
  IN Start(IpcaOutcomes, PnadOutcomes)

Spec == Init /\ [][Next]_vars

\* -- the join specification: numeric values only, two metropolitan areas of
\* two macro-regions against the two macro-regions, two quarters each side
\* with one in common
FetchOutcomes(resultados) ==
  {Exception, NotJson(500)} \cup {Json(200, Payload(x)) : x \in resultados}

InitJoin ==
  LET
      JoinIpcaLists ==
        OneSeries(<<MonthCode(FirstYear, 1), MonthCode(FirstYear, 4)>>, {V(1, 0)}, JoinObs)
      JoinPnadLists ==
        OneSeries(<<QuarterCode(FirstYear, 1), QuarterCode(FirstYear, 3)>>, {V(7, 5)}, JoinObs)
      JoinIpca ==
        FetchOutcomes(Resultados({SaoPaulo, Belem}, JoinIpcaLists, JoinResults, JoinObs))
      JoinPnad ==
        FetchOutcomes(Resultados({<<"3">>, <<"1">>}, JoinPnadLists, JoinResults, JoinObs))
  IN Start(JoinIpca, JoinPnad)

SpecJoin == InitJoin /\ [][Next]_vars

\* -- the aggregation specification: monthly values 1.0, 0.5, 1.5 of two
\* metropolitan areas of one macro-region, over two quarters
InitAgg ==
  LET
      AggIpcaLists ==
        OneSeries(<<MonthCode(FirstYear, 1), MonthCode(FirstYear, 2), MonthCode(FirstYear, 4)>>,
                  {V(1, 0), V(0, 5), V(1, 5)}, AggObs)
      AggIpca ==
        FetchOutcomes(Resultados({SaoPaulo, RioDeJaneiro}, AggIpcaLists, AggResults, AggObs))
      AggPnad ==
        {Exception,
         Json(200, Payload(<<[localidade |-> [id |-> <<"3">>, nome |-> Nome(<<"3">>)],
                              series |-> <<<<<<QuarterCode(FirstYear, 1), V(7, 5)>>>>>>]>>))}
  IN Start(AggIpca, AggPnad)

SpecAgg == InitAgg /\ [][Next]_vars

\* -- the quarter specification: every month of NumYears years against every
\* quarter of those years
RECURSIVE Codes(_, _, _, _)
\* the period codes of the years from `year` on, `per` periods a year
Codes(year, last, per, quarterly) ==
  IF year > last THEN <<>>
  ELSE [i \in 1..per |-> IF quarterly THEN QuarterCode(year, i) ELSE MonthCode(year, i)]
       \o Codes(year + 1, last, per, quarterly)

LastYear == FirstYear + NumYears - 1

\* the quarterly response with every quarter of the years covered
AllQuarters ==
  LET codes == Codes(FirstYear, LastYear, 4, TRUE)
  IN Payload(<<[localidade |-> [id |-> <<"3">>, nome |-> Nome(<<"3">>)],
               series |-> <<[i \in 1..Len(codes) |-> <<codes[i], V(7, 5)>>]>>]>>)

InitQuarter ==
  LET
      QuarterIpcaLists ==
       OneSeries(Codes(FirstYear, LastYear, 12, FALSE), {V(1, 0)}, QuarterObs)
      QuarterIpca ==
       FetchOutcomes(Resultados({SaoPaulo}, QuarterIpcaLists, QuarterObs, QuarterObs))
      QuarterPnad == {Exception, NotJson(500), Json(200, AllQuarters)}
  IN Start(QuarterIpca, QuarterPnad)

SpecQuarter == InitQuarter /\ [][Next]_vars

\* -- the region specification: metropolitan areas of all five macro-regions
\* against the five macro-regions, one observation each
InitRegion ==
  LET
      RegionIpca ==
        FetchOutcomes(Resultados({SaoPaulo, RioDeJaneiro, Belem, Recife, PortoAlegre, Brasilia},
                                 {<<<<<<MonthCode(FirstYear, 1), V(1, 0)>>>>>>},
                                 RegionResults, RegionResults))
      RegionPnad ==
        FetchOutcomes(Resultados(MacroKeys, {<<<<<<QuarterCode(FirstYear, 1), V(7, 5)>>>>>>},
                                 RegionResults, RegionResults))
  IN Start(RegionIpca, RegionPnad)

SpecRegion == InitRegion /\ [][Next]_vars

\* ===================================================================
\* Properties
\* ===================================================================
\* the position the control flow reached before stopping
Where == IF pc = "raised" THEN raised_at ELSE pc

Issued(endpoint) == \E i \in 1..Len(requests) : requests[i] = endpoint

\* a transport-level failure in the specification's sense: no answer (timeout,
\* DNS), a status outside 2xx, or a payload that is not the expected JSON
TransportFailed(outcome) ==
  \/ outcome.kind # "json"
  \/ outcome.status \notin 200..299
  \/ outcome.body.shape # "list"

FailureSeen ==
  \/ Issued("ipca") /\ TransportFailed(net.ipca)
  \/ Issued("pnad") /\ TransportFailed(net.pnad)

\* C1: once either GET has failed at transport level (timeout, DNS, non-2xx,
\* malformed payload) nothing is parsed, aggregated or joined, no exception
\* leaves fetch_ibge_data, and what it returns is the empty dataset.
C1_FailureShortCircuits ==
  FailureSeen =>
    /\ exc = NoExc
    /\ pc \notin {"parsed_ipca", "quartered", "aggregated", "parsed_pnad"}
    /\ (pc \in {"returned", "done"} => df = <<>>)

\* C2: a series that parses to zero records ends the pipeline with the empty
\* result: no exception is raised, no aggregation runs on it, and the page is
\* the error message.
C2_EmptySeriesPropagates ==
  /\ (Where = "parsed_ipca" /\ ipca_records = <<>>) => pc # "raised"
  /\ (Where = "parsed_pnad" /\ pnad_records = <<>>) => pc # "raised"
  /\ (pc \in {"quartered", "aggregated"} => ipca_records # <<>>)
  /\ (pc = "done" /\ Issued("pnad") /\ ~Raises(net.pnad)
        /\ (ipca_records = <<>> \/ pnad_records = <<>>)
      => layout = "error" /\ df = <<>>)

\* the observations of one dictionary that float() accepts
RECURSIVE NumericItems(_)
NumericItems(items) ==
  IF items = <<>> THEN 0
  ELSE (IF Float(Head(items)[2]).ok THEN 1 ELSE 0) + NumericItems(Tail(items))

RECURSIVE NumericFirst(_)
NumericFirst(resultados) ==
  IF resultados = <<>> THEN 0
  ELSE (IF Head(resultados).series = <<>> THEN 0
        ELSE NumericItems(Head(resultados).series[1]))
       + NumericFirst(Tail(resultados))

RECURSIVE NumericSeries(_)
NumericSeries(series) ==
  IF series = <<>> THEN 0
  ELSE NumericItems(Head(series)) + NumericSeries(Tail(series))

RECURSIVE NumericAll(_)
NumericAll(resultados) ==
  IF resultados = <<>> THEN 0
  ELSE NumericSeries(Head(resultados).series) + NumericAll(Tail(resultados))

\* C3: an observation whose value is "...", "-", "X" or otherwise not numeric
\* is skipped without an error, and the numeric observations around it are
\* still parsed.
C3_MarkersSkipped ==
  /\ ~(pc = "raised" /\ raised_at \in {"fetched", "aggregated"} /\ exc = "ValueError")
  /\ (Where = "parsed_ipca" => Len(ipca_records) = NumericFirst(resp_ipca.resultados))
  /\ (Where = "parsed_pnad" => Len(pnad_records) = NumericFirst(resp_pnad.resultados))

\* C9: every series entry of every result is parsed: the flat list holds one
\* record per numeric observation of the whole response.
C9_EverySeriesParsed ==
  /\ (Where = "parsed_ipca" => Len(ipca_records) = NumericAll(resp_ipca.resultados))
  /\ (Where = "parsed_pnad" => Len(pnad_records) = NumericAll(resp_pnad.resultados))

\* a request that failed: no answer, or an answer with a status outside 2xx
RequestFailed(outcome) ==
  outcome.kind = "exception" \/ outcome.status \notin 200..299

\* C10: each endpoint is requested at most once, the price index first, and
\* no request follows a failed one.
C10_SingleAttemptFailFast ==
  /\ requests \in {<<>>, <<"ipca">>, <<"ipca", "pnad">>}
  /\ (Issued("pnad") => ~RequestFailed(net.ipca))

KeysOfSeq(frame) == {<<frame[i].Macro_ID, frame[i].Trimestre_Cod>> : i \in 1..Len(frame)}

KeysOfSet(frame) == {<<r.Macro_ID, r.Trimestre_Cod>> : r \in frame}

\* C4: the merged dataset has a row for a (macro-region, quarter) pair exactly
\* when the pair is in both the aggregated inflation records and the
\* unemployment records, and each row carries the two values of its pair.
C4_InnerJoinOnly ==
  Where \in {"returned", "done"} =>
    /\ KeysOfSeq(df) = KeysOfSeq(pnad_records) \cap KeysOfSet(df_ipca_trim)
    /\ \A i \in 1..Len(df) :
         /\ \E j \in 1..Len(pnad_records) :
              /\ pnad_records[j].Macro_ID = df[i].Macro_ID
              /\ pnad_records[j].Trimestre_Cod = df[i].Trimestre_Cod
              /\ pnad_records[j].Desemprego = df[i].Desemprego
         /\ \E r \in df_ipca_trim :
              /\ r.Macro_ID = df[i].Macro_ID
              /\ r.Trimestre_Cod = df[i].Trimestre_Cod
              /\ r.IPCA_Acum_Trim = df[i].IPCA_Acum_Trim

\* a merged dataset with a row, beside a pair only the unemployment series has
\* and a pair only the inflation series has
C4_Witness ==
  /\ pc = "returned"
  /\ df # <<>>
  /\ KeysOfSeq(pnad_records) \ KeysOfSet(df_ipca_trim) # {}
  /\ KeysOfSet(df_ipca_trim) \ KeysOfSeq(pnad_records) # {}

QuartersOfSeq(frame) == {frame[i].Trimestre_Cod : i \in 1..Len(frame)}

QuartersOfSet(frame) == {r.Trimestre_Cod : r \in frame}

\* both series have records and share no quarter
DisjointQuarters ==
  /\ pnad_records # <<>>
  /\ df_ipca_trim # {}
  /\ QuartersOfSeq(pnad_records) \cap QuartersOfSet(df_ipca_trim) = {}

\* C5: an empty dataset is rendered as the error message with no chart and no
\* exception, also when it is empty because the two series share no quarter;
\* charts are built only from a non-empty dataset.
C5_EmptyRendersError ==
  /\ (pc = "done" /\ df = <<>> => layout = "error" /\ charts = 0)
  /\ (pc = "raised" /\ raised_at = "returned" => df # <<>>)
  /\ (charts > 0 \/ layout = "dashboard" => df # <<>>)
  /\ (DisjointQuarters /\ Where \in {"parsed_pnad", "returned", "done"} =>
        /\ pc # "raised"
        /\ (pc \in {"returned", "done"} => df = <<>>)
        /\ (pc = "done" => layout = "error" /\ charts = 0))

C5_Witness == pc = "done" /\ DisjointQuarters /\ layout = "error"

\* the rows of the monthly frame in one (macro-region, quarter) group
GroupRows(key) ==
  {i \in 1..Len(df_ipca) :
     df_ipca[i].Macro_ID = key[1] /\ df_ipca[i].Trimestre_Cod = key[2]}

RECURSIVE SumRows(_)
SumRows(rows) ==
  IF rows = {} THEN <<0, 1>>
  ELSE LET i == CHOOSE x \in rows : TRUE
       IN RatAdd(df_ipca[i].IPCA, SumRows(rows \ {i}))

\* value * n = total, on rationals
IsMeanOf(value, total, n) == value[1] * total[2] * n = total[1] * value[2]

Aggregated == Where \in {"aggregated", "parsed_pnad", "returned", "done"}

\* the group holds exactly the monthly values 1.0, 0.5 and 1.5
ScenarioGroup(rows) ==
  /\ Cardinality(rows) = 3
  /\ \A v \in {<<1, 1>>, <<1, 2>>, <<3, 2>>} :
       \E i \in rows : RatEq(df_ipca[i].IPCA, v)

\* C6: the aggregator yields exactly one record per (macro-region, quarter)
\* pair of the monthly records, holding the arithmetic mean of the group's
\* monthly values and three times that mean; the values 1.0, 0.5, 1.5 of one
\* group give mean 1.0 and scaled value 3.0.
C6_QuarterlyMean ==
  Aggregated =>
    /\ KeysOfSet(df_ipca_trim) = KeysOfSeq(df_ipca)
    /\ \A key \in KeysOfSeq(df_ipca) :
         Cardinality({r \in df_ipca_trim : <<r.Macro_ID, r.Trimestre_Cod>> = key}) = 1
    /\ \A r \in df_ipca_trim :
         LET rows == GroupRows(<<r.Macro_ID, r.Trimestre_Cod>>)
             total == SumRows(rows)
         IN /\ r.IPCA[2] # 0
            /\ r.IPCA_Acum_Trim[2] # 0
            /\ IsMeanOf(r.IPCA, total, Cardinality(rows))
            /\ IsMeanOf(r.IPCA_Acum_Trim, <<3 * total[1], total[2]>>, Cardinality(rows))
            /\ (ScenarioGroup(rows) =>
                  RatEq(r.IPCA, <<1, 1>>) /\ RatEq(r.IPCA_Acum_Trim, <<3, 1>>))

\* the scenario's group, its values coming from two metropolitan areas
C6_Witness ==
  /\ pc = "aggregated"
  /\ \E r \in df_ipca_trim :
       /\ ScenarioGroup(GroupRows(<<r.Macro_ID, r.Trimestre_Cod>>))
       /\ \E i, j \in GroupRows(<<r.Macro_ID, r.Trimestre_Cod>>) :
            df_ipca[i].RM # df_ipca[j].RM
       /\ RatEq(r.IPCA_Acum_Trim, <<3, 1>>)

\* the quarter of a month, as the claim tabulates it
QuarterOfMonth(m) ==
  CASE m \in {1, 2, 3} -> 1
    [] m \in {4, 5, 6} -> 2
    [] m \in {7, 8, 9} -> 3
    [] m \in {10, 11, 12} -> 4

MonthOf(mes) == 10 * DigitVal(mes[5]) + DigitVal(mes[6])

YearOf(mes) ==
  1000 * DigitVal(mes[1]) + 100 * DigitVal(mes[2]) + 10 * DigitVal(mes[3])
  + DigitVal(mes[4])

\* C7: whatever the year, months 01-03 give quarter 1, 04-06 quarter 2, 07-09
\* quarter 3 and 10-12 quarter 4, and the quarter key is the four-digit year
\* followed by the quarter on two digits, which is the code the quarterly
\* unemployment series uses for that quarter.
C7_QuarterKey ==
  \A i \in 1..Len(df_ipca) :
    LET row == df_ipca[i]
        q == QuarterOfMonth(MonthOf(row.Mes))
    IN /\ row.Trimestre = q
       /\ Len(row.Trimestre_Cod) = 6
       /\ SubSeq(row.Trimestre_Cod, 1, 4) = SubSeq(row.Mes, 1, 4)
       /\ SubSeq(row.Trimestre_Cod, 5, 6) = <<"0", DigitChars[q + 1]>>
       /\ row.Trimestre_Cod = QuarterCode(YearOf(row.Mes), q)
       /\ \A j \in 1..Len(pnad_records) :
            (pnad_records[j].Trimestre_Cod = QuarterCode(YearOf(row.Mes), q)
             /\ pnad_records[j].Macro_ID = row.Macro_ID
             /\ Where \in {"returned", "done"})
            => \E k \in 1..Len(df) : df[k].Trimestre_Cod = row.Trimestre_Cod

\* December of the second year, joined to that year's fourth quarter
C7_Witness ==
  /\ Where = "returned"
  /\ \E i \in 1..Len(df_ipca) : df_ipca[i].Mes = MonthCode(FirstYear + 1, 12)
  /\ \E k \in 1..Len(df) : df[k].Trimestre_Cod = QuarterCode(FirstYear + 1, 4)

\* the name of a macro-region code, as the claim lists them
NameOfCode(c) ==
  CASE c = "1" -> "Norte"
    [] c = "2" -> "Nordeste"
    [] c = "3" -> "Sudeste"
    [] c = "4" -> "Sul"
    [] c = "5" -> "Centro-Oeste"

\* C8: the macro-region code of a record is the first character of its
\* 7-digit region identifier, one of "1".."5", and the table names it (1 Norte,
\* 2 Nordeste, 3 Sudeste, 4 Sul, 5 Centro-Oeste); "3550308" gives "3", Sudeste.
C8_MacroRegionCode ==
  /\ \A i \in 1..Len(ipca_records) :
       \A j \in 1..Len(resp_ipca.resultados) :
         LET loc == resp_ipca.resultados[j].localidade
         IN loc.nome = ipca_records[i].RM =>
              /\ Len(loc.id) = 7
              /\ ipca_records[i].Macro_ID = <<loc.id[1]>>
              /\ loc.id[1] \in {"1", "2", "3", "4", "5"}
              /\ (loc.id = SaoPaulo => ipca_records[i].Macro_ID = <<"3">>)
  /\ \A k \in 1..Len(df) :
       /\ Len(df[k].Macro_ID) = 1
       /\ df[k].Regiao = NameOfCode(df[k].Macro_ID[1])

\* identifier "3550308" parsed and joined as Sudeste
C8_Witness ==
  /\ Where = "returned"
  /\ \E i \in 1..Len(ipca_records) : ipca_records[i].RM = "Sao Paulo"
  /\ \E k \in 1..Len(df) : df[k].Macro_ID = <<"3">> /\ df[k].Regiao = "Sudeste"
  /\ \E k \in 1..Len(df) : df[k].Regiao = "Centro-Oeste"

====
